---------------------------- MODULE Spec2Model ----------------------------
(***************************************************************************)
(* Booking-intake backend (LeonDietsche/mariastudio-backend).              *)
(*                                                                         *)
(* The repository holds six revisions of one three-route Express server   *)
(* (POST /submit-booking, GET /bookings, GET /ping):                      *)
(*   "mongoEmail"  src/server.js 1-104     MongoDB + plain admin e-mail   *)
(*   "flatAuth"    src/server.js 107-151   bookings.json + bearer check   *)
(*   "multipart"   src/server.js 152-464   multer + MongoDB + admin and   *)
(*                                         client e-mail (grouped render) *)
(*   "mongoOnly"   src/server.js 466-537   MongoDB, no e-mail             *)
(*   "pdfUpload"   src/unnamed/part_000    multer with PDF filter +       *)
(*                                         MongoDB + plain admin e-mail   *)
(*   "flatOpen"    src/unnamed/part_001    bookings.json, open listing    *)
(* The variable `variant` says which revision is running.                 *)
(*                                                                         *)
(* A JavaScript callback runs to completion: each action below is one     *)
(* such run, from the event that starts it (a request arriving, a promise *)
(* settling) to the next await or to the response.                        *)
(***************************************************************************)
EXTENDS Naturals, Sequences, FiniteSets, TLC

VARIABLES variant, connect, store, corrupt, req, nextOid, clock,
          data, groups, gpc

vars == <<variant, connect, store, corrupt, req, nextOid, clock,
          data, groups, gpc>>

serverVars == <<variant, connect, store, corrupt, req, nextOid, clock>>

groupVars == <<data, groups, gpc>>

(***************************************************************************)
(* Bounds of the model.                                                    *)
(***************************************************************************)
\* requests handled in one run of the server
MaxReq == 2

\* fields of a submission handed to groupKeys
MaxFields == 2

(***************************************************************************)
(* Strings.  TLC cannot take a string apart, so the spelling of every     *)
(* string the model uses is tabulated; startsWith and trim work on the    *)
(* spelling.                                                               *)
(***************************************************************************)
Chars ==
   ("" :> <<>>) @@
   (" " :> <<" ">>) @@
   ("  " :> <<" ", " ">>) @@
   ("x" :> <<"x">>) @@
   (" x " :> <<" ", "x", " ">>) @@
   ("Jane" :> <<"J", "a", "n", "e">>) @@
   ("jane@x.com" :> <<"j", "a", "n", "e", "@", "x", ".", "c", "o", "m">>) @@
   (" jane@x.com " :> <<" ", "j", "a", "n", "e", "@", "x", ".", "c", "o", "m", " ">>) @@
   ("x1" :> <<"x", "1">>) @@
   ("_id" :> <<"_", "i", "d">>) @@
   ("file" :> <<"f", "i", "l", "e">>) @@
   ("file_name" :> <<"f", "i", "l", "e", "_", "n", "a", "m", "e">>) @@
   ("file_content" :> <<"f", "i", "l", "e", "_", "c", "o", "n", "t", "e", "n", "t">>) @@
   ("uploaded_file" :> <<"u", "p", "l", "o", "a", "d", "e", "d", "_", "f", "i", "l", "e">>) @@
   ("contact_name" :> <<"c", "o", "n", "t", "a", "c", "t", "_", "n", "a", "m", "e">>) @@
   ("contact_email" :> <<"c", "o", "n", "t", "a", "c", "t", "_", "e", "m", "a", "i", "l">>) @@
   ("contact_phone" :> <<"c", "o", "n", "t", "a", "c", "t", "_", "p", "h", "o", "n", "e">>) @@
   ("youarea" :> <<"y", "o", "u", "a", "r", "e", "a">>) @@
   ("general_equipmentlistready" :> <<"g", "e", "n", "e", "r", "a", "l", "_", "e", "q", "u", "i", "p", "m", "e", "n", "t", "l", "i", "s", "t", "r", "e", "a", "d", "y">>) @@
   ("general_eqlisttext" :> <<"g", "e", "n", "e", "r", "a", "l", "_", "e", "q", "l", "i", "s", "t", "t", "e", "x", "t">>) @@
   ("general_project-type" :> <<"g", "e", "n", "e", "r", "a", "l", "_", "p", "r", "o", "j", "e", "c", "t", "-", "t", "y", "p", "e">>) @@
   ("general_tellusmore" :> <<"g", "e", "n", "e", "r", "a", "l", "_", "t", "e", "l", "l", "u", "s", "m", "o", "r", "e">>) @@
   ("billing_city" :> <<"b", "i", "l", "l", "i", "n", "g", "_", "c", "i", "t", "y">>) @@
   ("billing_Country" :> <<"b", "i", "l", "l", "i", "n", "g", "_", "C", "o", "u", "n", "t", "r", "y">>) @@
   ("billing_details" :> <<"b", "i", "l", "l", "i", "n", "g", "_", "d", "e", "t", "a", "i", "l", "s">>) @@
   ("client_date" :> <<"c", "l", "i", "e", "n", "t", "_", "d", "a", "t", "e">>) @@
   ("date" :> <<"d", "a", "t", "e">>) @@
   ("notes" :> <<"n", "o", "t", "e", "s">>) @@
   ("contact_" :> <<"c", "o", "n", "t", "a", "c", "t", "_">>) @@
   ("general_equipment" :> <<"g", "e", "n", "e", "r", "a", "l", "_", "e", "q", "u", "i", "p", "m", "e", "n", "t">>) @@
   ("general_" :> <<"g", "e", "n", "e", "r", "a", "l", "_">>) @@
   ("billing_" :> <<"b", "i", "l", "l", "i", "n", "g", "_">>) @@
   ("contact_company" :> <<"c", "o", "n", "t", "a", "c", "t", "_", "c", "o", "m", "p", "a", "n", "y">>) @@
   ("contact_firsttime" :> <<"c", "o", "n", "t", "a", "c", "t", "_", "f", "i", "r", "s", "t", "t", "i", "m", "e">>) @@
   ("contact_shootdays" :> <<"c", "o", "n", "t", "a", "c", "t", "_", "s", "h", "o", "o", "t", "d", "a", "y", "s">>) @@
   ("contact_appointment-dates" :> <<"c", "o", "n", "t", "a", "c", "t", "_", "a", "p", "p", "o", "i", "n", "t", "m", "e", "n", "t", "-", "d", "a", "t", "e", "s">>) @@
   ("general_brandname" :> <<"g", "e", "n", "e", "r", "a", "l", "_", "b", "r", "a", "n", "d", "n", "a", "m", "e">>) @@
   ("general_magazinename" :> <<"g", "e", "n", "e", "r", "a", "l", "_", "m", "a", "g", "a", "z", "i", "n", "e", "n", "a", "m", "e">>) @@
   ("general_photographer" :> <<"g", "e", "n", "e", "r", "a", "l", "_", "p", "h", "o", "t", "o", "g", "r", "a", "p", "h", "e", "r">>) @@
   ("general_numberofpeople" :> <<"g", "e", "n", "e", "r", "a", "l", "_", "n", "u", "m", "b", "e", "r", "o", "f", "p", "e", "o", "p", "l", "e">>) @@
   ("billing_company" :> <<"b", "i", "l", "l", "i", "n", "g", "_", "c", "o", "m", "p", "a", "n", "y">>) @@
   ("billing_street" :> <<"b", "i", "l", "l", "i", "n", "g", "_", "s", "t", "r", "e", "e", "t">>) @@
   ("billing_state" :> <<"b", "i", "l", "l", "i", "n", "g", "_", "s", "t", "a", "t", "e">>) @@
   ("billing_postalcode" :> <<"b", "i", "l", "l", "i", "n", "g", "_", "p", "o", "s", "t", "a", "l", "c", "o", "d", "e">>) @@
   ("billing_country" :> <<"b", "i", "l", "l", "i", "n", "g", "_", "c", "o", "u", "n", "t", "r", "y">>) @@
   ("billing_vatnumber" :> <<"b", "i", "l", "l", "i", "n", "g", "_", "v", "a", "t", "n", "u", "m", "b", "e", "r">>)

Strings == DOMAIN Chars

\* the string spelled by cs
StrOf(cs) == CHOOSE s \in Strings : Chars[s] = cs

\* String.prototype.startsWith
startsWith(cs, prefix) ==
   /\ Len(prefix) <= Len(cs)
   /\ SubSeq(cs, 1, Len(prefix)) = prefix

White == {" ", "\t", "\n"}

RECURSIVE trimStart(_)
trimStart(cs) ==
   IF cs # <<>> /\ Head(cs) \in White THEN trimStart(Tail(cs)) ELSE cs

RECURSIVE trimEnd(_)
trimEnd(cs) ==
   IF cs # <<>> /\ cs[Len(cs)] \in White
      THEN trimEnd(SubSeq(cs, 1, Len(cs) - 1))
      ELSE cs

\* String.prototype.trim
trim(cs) == trimEnd(trimStart(cs))

(***************************************************************************)
(* Values and objects.  A value is tagged with its JavaScript type; an    *)
(* object is the sequence of its own properties in insertion order.       *)
(***************************************************************************)
Null == [t |-> "null"]

Str(s) == [t |-> "str", s |-> s]

Arr(items) == [t |-> "arr", items |-> items]

\* an ObjectId generated by the MongoDB driver
ObjectId(n) == [t |-> "oid", n |-> n]

\* new Date().toISOString() taken at server time n
IsoDate(n) == [t |-> "date", n |-> n]

\* { originalname, mimetype, size } of an uploaded file
FileMeta(f) ==
   [t |-> "meta", originalname |-> f.originalname, mimetype |-> f.mimetype, size |-> f.size]

Prop(k, v) == [k |-> k, v |-> v]

Keys(obj) == [i \in 1..Len(obj) |-> obj[i].k]

HasKey(obj, k) == \E i \in 1..Len(obj) : obj[i].k = k

\* obj[k]; undefined reads as Null (the code only tests it with == null or ||)
Get(obj, k) ==
   IF HasKey(obj, k)
      THEN obj[CHOOSE i \in 1..Len(obj) : obj[i].k = k].v
      ELSE Null

\* obj[k] = v: an existing property keeps its place, a new one is appended
Set(obj, k, v) ==
   IF HasKey(obj, k)
      THEN [i \in 1..Len(obj) |-> IF obj[i].k = k THEN Prop(k, v) ELSE obj[i]]
      ELSE Append(obj, Prop(k, v))

\* { ...a, ...b }
RECURSIVE Spread(_, _)
Spread(a, b) ==
   IF b = <<>> THEN a ELSE Spread(Set(a, Head(b).k, Head(b).v), Tail(b))

RECURSIVE join(_, _)
join(items, sep) ==
   IF items = <<>> THEN <<>>
   ELSE IF Len(items) = 1 THEN Chars[items[1]]
   ELSE Chars[items[1]] \o sep \o join(Tail(items), sep)

\* String(v), as spelling.  An ISO date and the other non-string values
\* convert to non-blank text; only its blankness is read.
String(v) ==
   CASE v.t = "str" -> Chars[v.s]
     [] v.t = "arr" -> join(v.items, <<",">>)
     [] OTHER -> <<"o">>

(***************************************************************************)
(* Field classifier: groupKeys of the "multipart" revision.               *)
(***************************************************************************)
EXCLUDE_KEYS == {"_id", "file", "file_name", "file_content"}

GroupNames == {"Contact", "Project", "Equipment", "Billing", "Meta"}

\* v == null || String(v).trim() === ''
IsBlank(v) == v.t = "null" \/ trim(String(v)) = <<>>

\* the chain with the general_ test ahead of the general_equipment test
ClassifyEquipmentLast(k) ==
   LET cs == Chars[k] IN
   IF startsWith(cs, Chars["contact_"]) \/ k = "youarea" THEN "Contact"
   ELSE IF startsWith(cs, Chars["general_"]) THEN "Project"
   ELSE IF startsWith(cs, Chars["general_equipment"]) THEN "Equipment"
   ELSE IF startsWith(cs, Chars["billing_"]) \/ k = "billing_Country" THEN "Billing"
   ELSE IF k = "client_date" \/ k = "date" THEN "Meta"
   ELSE "Project"

\* the if / else-if chain that picks the group of a kept key
Classify(k) ==
   LET cs == Chars[k] IN
   IF startsWith(cs, Chars["contact_"]) \/ k = "youarea" THEN "Contact"
   ELSE IF startsWith(cs, Chars["general_equipment"]) THEN "Equipment"
   ELSE IF startsWith(cs, Chars["general_"]) THEN "Project"
   ELSE IF startsWith(cs, Chars["billing_"]) \/ k = "billing_Country" THEN "Billing"
   ELSE IF k = "client_date" \/ k = "date" THEN "Meta"
   ELSE "Project"

EmptyGroups ==
   [Contact |-> <<>>, Project |-> <<>>, Equipment |-> <<>>, Billing |-> <<>>, Meta |-> <<>>]

\* for (const k of keys) { ... }, from the i-th key on
RECURSIVE groupLoop(_, _, _)
groupLoop(d, i, g) ==
   IF i > Len(d) THEN g
   ELSE LET k == d[i].k
            v == d[i].v
        IN  IF k \in EXCLUDE_KEYS \/ IsBlank(v)
               THEN groupLoop(d, i + 1, g)
               ELSE groupLoop(d, i + 1, [g EXCEPT ![Classify(k)] = Append(@, k)])

Range(s) == {s[i] : i \in 1..Len(s)}

\* order(arr, wanted): the wanted keys that are present, in wanted order,
\* then the others in encounter order
order(arr, wanted) ==
   SelectSeq(wanted, LAMBDA k : k \in Range(arr))
      \o SelectSeq(arr, LAMBDA k : k \notin Range(wanted))

ContactOrder ==
   << "contact_name", "contact_email", "contact_phone", "contact_company",
      "contact_firsttime", "youarea", "contact_shootdays", "contact_appointment-dates" >>

ProjectOrder ==
   << "general_project-type", "general_brandname", "general_magazinename",
      "general_photographer", "general_numberofpeople", "general_tellusmore" >>

EquipmentOrder == << "general_equipmentlistready", "general_eqlisttext" >>

BillingOrder ==
   << "billing_details", "billing_company", "billing_street", "billing_city",
      "billing_state", "billing_postalcode", "billing_country", "billing_Country",
      "billing_vatnumber" >>

groupKeys(d) ==
   LET g == groupLoop(d, 1, EmptyGroups) IN
   [Contact   |-> order(g.Contact, ContactOrder),
    Project   |-> order(g.Project, ProjectOrder),
    Equipment |-> order(g.Equipment, EquipmentOrder),
    Billing   |-> order(g.Billing, BillingOrder),
    Meta      |-> g.Meta]

(***************************************************************************)
(* The six revisions and what each one wires together.                     *)
(***************************************************************************)
Variants == {"mongoEmail", "flatAuth", "multipart", "mongoOnly", "pdfUpload", "flatOpen"}

\* revisions whose Booking Store is the MongoDB collection `bookings`
UsesMongo(v) == v \in {"mongoEmail", "multipart", "mongoOnly", "pdfUpload"}

\* revisions whose submit route runs upload.single('general_eqlistfile') first
UsesMulter(v) == v \in {"multipart", "pdfUpload"}

\* revisions whose submit handler awaits sendBookingNotification
SendsMail(v) == v \in {"mongoEmail", "multipart", "pdfUpload"}

\* revisions whose listing handler compares the Authorization header
ChecksBearer(v) == v # "flatOpen"

\* process.env.ADMIN_PASSWORD
ADMIN_PASSWORD == "s3cret"

\* !authHeader || authHeader !== `Bearer ${process.env.ADMIN_PASSWORD}`
Unauthorized(authHeader) ==
   authHeader = "" \/ authHeader # ("Bearer " \o ADMIN_PASSWORD)

\* limits: { fileSize: 10 * 1024 * 1024 }
FileSizeLimit == 10 * 1024 * 1024

NoFile == [present |-> FALSE, originalname |-> "", mimetype |-> "", size |-> 0]

UploadedFile(name, mime, size) ==
   [present |-> TRUE, originalname |-> name, mimetype |-> mime, size |-> size]

\* What multer does with the request before the handler runs: "ok", or the
\* error it passes to next().  The fileFilter sees the part's header before
\* any byte is counted.
Multer(v, file) ==
   IF ~UsesMulter(v) \/ ~file.present THEN "ok"
   ELSE IF v = "pdfUpload" /\ file.mimetype # "application/pdf" THEN "FilterError"
   ELSE IF file.size > FileSizeLimit THEN "MulterError"
   ELSE "ok"

\* The response to an error passed to next(): the error middleware of
\* "pdfUpload" answers 400 with the error's message; without one, Express's
\* default handler answers with the error's status, 500 when it has none.
ErrorResponse(v, err) ==
   IF v = "pdfUpload"
      THEN [status |-> 400,
            msg |-> IF err = "MulterError" THEN "File too large"
                                           ELSE "Only PDF files are allowed."]
      ELSE [status |-> 500, msg |-> "Internal Server Error"]

\* the object handed to the store: bookingData / record
BuildRecord(v, body, file, now) ==
   CASE v = "multipart" ->
           Spread(Spread(body, <<Prop("date", IsoDate(now))>>),
                  IF file.present THEN <<Prop("file", FileMeta(file))>> ELSE <<>>)
     [] v = "pdfUpload" ->
           Spread(body,
                  <<Prop("uploaded_file", IF file.present THEN FileMeta(file) ELSE Null),
                    Prop("date", IsoDate(now))>>)
     [] OTHER -> Spread(body, <<Prop("date", IsoDate(now))>>)

\* insertOne gives the document an _id only when it has none
WithId(doc, oid) ==
   IF HasKey(doc, "_id") THEN doc ELSE Set(doc, "_id", ObjectId(oid))

\* the unique index on _id
DuplicateKey(coll, doc) == \E i \in 1..Len(coll) : Get(coll[i], "_id") = Get(doc, "_id")

\* const clientEmail = (data.contact_email || '').trim(), for string fields
clientEmail(d) ==
   LET v == Get(d, "contact_email") IN
   IF v.t = "str" THEN StrOf(trim(Chars[v.s])) ELSE ""

\* the second sendMail without its if (clientEmail) guard
SendsClientAlways(v, d) == v = "multipart"

\* if (clientEmail) { second sendMail }: only the "multipart" notifier has it
SendsClient(v, d) == v = "multipart" /\ clientEmail(d) # ""

\* a handler that swallowed a rejected insertOne and went on
AfterInsertIgnoringFailure(v, ok) ==
   IF SendsMail(v) THEN "notify" ELSE "respond"

\* What the submit handler does once insertOne has settled: "respond" with
\* the id, go on to "notify", or "fail" into the catch block.
AfterInsert(v, ok) ==
   IF ~ok THEN "fail" ELSE IF SendsMail(v) THEN "notify" ELSE "respond"

(***************************************************************************)
(* Requests.  Request r is one HTTP exchange; its record carries what     *)
(* arrived, where its handler stands and what was answered.               *)
(***************************************************************************)
Reqs == 1..MaxReq

IdleReq ==
   [kind |-> "none", pc |-> "idle", body |-> <<>>, file |-> NoFile, auth |-> "",
    record |-> <<>>, put |-> "none", notify |-> "none", sent |-> <<>>,
    read |-> "none", queried |-> FALSE, status |-> 0, msg |-> "", id |-> Null,
    list |-> <<>>]

BodyJane ==
   << Prop("contact_name", Str("Jane")), Prop("contact_email", Str(" jane@x.com ")) >>

BodyOwnId ==
   << Prop("_id", Str("x1")), Prop("date", Str("x")), Prop("contact_email", Str("  ")) >>

BodyFileField == << Prop("file", Str("x")), Prop("uploaded_file", Str("x")) >>

Bodies == {BodyJane, BodyOwnId, BodyFileField}

PdfFile == UploadedFile("list.pdf", "application/pdf", 1024)

PngFile == UploadedFile("list.png", "image/png", 1024)

BigPdf == UploadedFile("big.pdf", "application/pdf", 15 * 1024 * 1024)

\* the submissions a client sends: JSON bodies everywhere, and multipart
\* forms with a file where multer is mounted
SubmitInputs(v) ==
   {[body |-> b, file |-> NoFile] : b \in Bodies}
      \cup (IF UsesMulter(v)
               THEN {[body |-> BodyJane, file |-> PdfFile],
                     [body |-> BodyFileField, file |-> PdfFile],
                     [body |-> BodyJane, file |-> PngFile],
                     [body |-> BodyJane, file |-> BigPdf]}
               ELSE {})

\* every submission of the model, whatever the revision
AllSubmitInputs == UNION {SubmitInputs(v) : v \in Variants}

\* the Authorization headers a client sends ("" is a request without one)
AuthHeaders == {"", "Bearer s3cret", "bearer s3cret", "Bearer other"}

\* let db, bookings: assigned when client.connect() resolves
bookings == IF connect = "resolved" THEN "collection" ELSE "undefined"

\* requests arrive in the order of their numbers
Arrives(r) ==
   /\ req[r].pc = "idle"
   /\ IF r = 1 THEN TRUE ELSE req[r - 1].pc # "idle"

Answer(q, status, msg) == [q EXCEPT !.pc = "done", !.status = status, !.msg = msg]

Init ==
   /\ variant \in Variants
   /\ connect = IF UsesMongo(variant) THEN "pending" ELSE "none"
   /\ store = <<>>
   /\ corrupt = FALSE
   /\ req = [r \in Reqs |-> IdleReq]
   /\ nextOid = 1
   /\ clock = 1
   /\ data = <<>>
   /\ groups = EmptyGroups
   /\ gpc = "off"

\* client.connect().then(...)
Connected ==
   /\ connect = "pending"
   /\ connect' = "resolved"
   /\ UNCHANGED <<variant, store, corrupt, req, nextOid, clock, groupVars>>

\* client.connect().catch(...)
ConnectFailed ==
   /\ connect = "pending"
   /\ connect' = "rejected"
   /\ UNCHANGED <<variant, store, corrupt, req, nextOid, clock, groupVars>>

\* POST /submit-booking of a MongoDB revision, up to `await insertOne`
SubmitMongo(r, in) ==
   /\ UsesMongo(variant)
   /\ Arrives(r)
   /\ in \in SubmitInputs(variant)
   /\ LET q   == [req[r] EXCEPT !.kind = "submit", !.body = in.body, !.file = in.file]
          err == Multer(variant, in.file)
          rec == BuildRecord(variant, in.body, in.file, clock)
      IN  IF err # "ok"
             THEN /\ req' = [req EXCEPT ![r] =
                                Answer(q, ErrorResponse(variant, err).status,
                                          ErrorResponse(variant, err).msg)]
                  /\ UNCHANGED <<nextOid, clock>>
          ELSE IF bookings = "undefined"
             THEN \* bookings.insertOne throws a TypeError inside the try block
                  /\ req' = [req EXCEPT ![r] =
                                Answer([q EXCEPT !.record = rec, !.put = "failed"],
                                       500, "Failed to save booking")]
                  /\ clock' = clock + 1
                  /\ UNCHANGED nextOid
          ELSE /\ req' = [req EXCEPT ![r] =
                             [q EXCEPT !.pc = "inserting", !.record = WithId(rec, nextOid)]]
               /\ clock' = clock + 1
               /\ nextOid' = IF HasKey(rec, "_id") THEN nextOid ELSE nextOid + 1
   /\ UNCHANGED <<variant, connect, store, corrupt, groupVars>>

\* the first sendMail of sendBookingNotification: the admin message, with
\* the uploaded file attached when there is one
AdminMail(q) ==
   [to |-> "admin", rcpt |-> "EMAIL_TO", attach |-> q.file.present, result |-> "pending"]

\* the second sendMail: the confirmation to the client, never an attachment
ClientMail(q) ==
   [to |-> "client", rcpt |-> clientEmail(q.record), attach |-> FALSE, result |-> "pending"]

\* insertOne settles; the handler runs on to its next await or its response
InsertDone(r, ok) ==
   /\ req[r].pc = "inserting"
   /\ LET q        == req[r]
          inserted == ok /\ ~DuplicateKey(store, q.record)
          next     == AfterInsert(variant, inserted)
      IN  /\ store' = IF inserted THEN Append(store, q.record) ELSE store
          /\ req' = [req EXCEPT ![r] =
                CASE next = "fail" ->
                        Answer([q EXCEPT !.put = "failed"], 500, "Failed to save booking")
                  [] next = "notify" ->
                        [q EXCEPT !.put = IF inserted THEN "ok" ELSE "failed",
                                  !.pc = "mailAdmin", !.notify = "running",
                                  !.sent = <<AdminMail(q)>>]
                  [] OTHER ->
                        [Answer([q EXCEPT !.put = IF inserted THEN "ok" ELSE "failed"],
                                200, "Booking saved")
                           EXCEPT !.id = Get(q.record, "_id")]]
   /\ UNCHANGED <<variant, connect, corrupt, nextOid, clock, groupVars>>

\* the admin sendMail settles
AdminSendDone(r, ok) ==
   /\ req[r].pc = "mailAdmin"
   /\ LET q == [req[r] EXCEPT !.sent[1].result = IF ok THEN "ok" ELSE "failed"] IN
      req' = [req EXCEPT ![r] =
         IF ~ok
            THEN Answer([q EXCEPT !.notify = "failed"], 500, "Failed to save booking")
         ELSE IF SendsClient(variant, q.record)
            THEN [q EXCEPT !.pc = "mailClient", !.sent = Append(@, ClientMail(q))]
         ELSE [Answer([q EXCEPT !.notify = "ok"], 200, "Booking saved")
                  EXCEPT !.id = Get(q.record, "_id")]]
   /\ UNCHANGED <<variant, connect, store, corrupt, nextOid, clock, groupVars>>

\* the client sendMail settles
ClientSendDone(r, ok) ==
   /\ req[r].pc = "mailClient"
   /\ LET q == [req[r] EXCEPT !.sent[2].result = IF ok THEN "ok" ELSE "failed"] IN
      req' = [req EXCEPT ![r] =
         IF ~ok
            THEN Answer([q EXCEPT !.notify = "failed"], 500, "Failed to save booking")
            ELSE [Answer([q EXCEPT !.notify = "ok"], 200, "Booking saved")
                     EXCEPT !.id = Get(q.record, "_id")]]
   /\ UNCHANGED <<variant, connect, store, corrupt, nextOid, clock, groupVars>>

\* POST /submit-booking of a flat-file revision: a synchronous handler, so
\* read, push, write and response are one uninterrupted run.  The read or
\* the parse may throw (caught: current stays []); the write may throw
\* before touching the file ("fail") or after truncating it ("truncate"),
\* and nothing catches that.
SubmitFlat(r, body, readOk, write) ==
   /\ ~UsesMongo(variant)
   /\ Arrives(r)
   /\ body \in Bodies
   /\ LET q       == [req[r] EXCEPT !.kind = "submit", !.body = body,
                                    !.read = IF readOk /\ ~corrupt THEN "ok" ELSE "failed"]
          current == IF readOk /\ ~corrupt THEN store ELSE <<>>
          rec     == BuildRecord(variant, body, NoFile, clock)
      IN  CASE write = "ok" ->
                  /\ store' = Append(current, rec)
                  /\ corrupt' = FALSE
                  /\ req' = [req EXCEPT ![r] =
                                Answer([q EXCEPT !.record = rec, !.put = "ok"],
                                       200, "Booking received")]
            [] write = "fail" ->
                  /\ UNCHANGED <<store, corrupt>>
                  /\ req' = [req EXCEPT ![r] =
                                Answer([q EXCEPT !.record = rec, !.put = "failed"],
                                       500, "Internal Server Error")]
            [] write = "truncate" ->
                  /\ store' = <<>>
                  /\ corrupt' = TRUE
                  /\ req' = [req EXCEPT ![r] =
                                Answer([q EXCEPT !.record = rec, !.put = "failed"],
                                       500, "Internal Server Error")]
   /\ clock' = clock + 1
   /\ UNCHANGED <<variant, connect, nextOid, groupVars>>

\* GET /bookings of a MongoDB revision, up to `await find().toArray()`
ListMongo(r, auth) ==
   /\ UsesMongo(variant)
   /\ Arrives(r)
   /\ auth \in AuthHeaders
   /\ LET q == [req[r] EXCEPT !.kind = "list", !.auth = auth] IN
      req' = [req EXCEPT ![r] =
         IF ChecksBearer(variant) /\ Unauthorized(auth)
            THEN Answer(q, 401, "Unauthorized")
         ELSE IF bookings = "undefined"
            THEN \* bookings.find throws a TypeError inside the try block
                 Answer(q, 500, "Failed to fetch bookings")
         ELSE [q EXCEPT !.pc = "finding", !.queried = TRUE]]
   /\ UNCHANGED <<variant, connect, store, corrupt, nextOid, clock, groupVars>>

\* find().toArray() settles
FindDone(r, ok) ==
   /\ req[r].pc = "finding"
   /\ req' = [req EXCEPT ![r] =
         IF ok THEN [Answer(req[r], 200, "") EXCEPT !.list = store]
               ELSE Answer(req[r], 500, "Failed to fetch bookings")]
   /\ UNCHANGED <<variant, connect, store, corrupt, nextOid, clock, groupVars>>

\* GET /bookings of a flat-file revision
ListFlat(r, auth, readOk) ==
   /\ ~UsesMongo(variant)
   /\ Arrives(r)
   /\ auth \in AuthHeaders
   /\ LET q == [req[r] EXCEPT !.kind = "list", !.auth = auth] IN
      req' = [req EXCEPT ![r] =
         IF ChecksBearer(variant) /\ Unauthorized(auth)
            THEN Answer(q, 401, "Unauthorized")
         ELSE IF readOk /\ ~corrupt
            THEN [Answer([q EXCEPT !.queried = TRUE], 200, "") EXCEPT !.list = store]
         ELSE Answer([q EXCEPT !.queried = TRUE], 500, "Failed to read bookings.")]
   /\ UNCHANGED <<variant, connect, store, corrupt, nextOid, clock, groupVars>>

Next ==
   \/ Connected
   \/ ConnectFailed
   \/ \E r \in Reqs : \E in \in AllSubmitInputs : SubmitMongo(r, in)
   \/ \E r \in Reqs : \E ok \in BOOLEAN : InsertDone(r, ok)
   \/ \E r \in Reqs : \E ok \in BOOLEAN : AdminSendDone(r, ok)
   \/ \E r \in Reqs : \E ok \in BOOLEAN : ClientSendDone(r, ok)
   \/ \E r \in Reqs : \E body \in Bodies : \E readOk \in BOOLEAN :
         \E write \in {"ok", "fail", "truncate"} : SubmitFlat(r, body, readOk, write)
   \/ \E r \in Reqs : \E auth \in AuthHeaders : ListMongo(r, auth)
   \/ \E r \in Reqs : \E ok \in BOOLEAN : FindDone(r, ok)
   \/ \E r \in Reqs : \E auth \in AuthHeaders : \E readOk \in BOOLEAN :
         ListFlat(r, auth, readOk)

Spec == Init /\ [][Next]_vars

(***************************************************************************)
(* groupKeys on its own: a submission is drawn, groupKeys is applied.     *)
(***************************************************************************)
GKeys ==
   {"_id", "file", "file_name", "contact_name", "contact_email", "youarea",
    "general_equipmentlistready", "general_eqlisttext", "general_project-type",
    "billing_city", "billing_Country", "client_date", "date", "notes"}

GValues == {Null, Str("  "), Str(" x "), Arr(<<>>), Arr(<<"x", "x1">>)}

\* submissions of at most MaxFields fields, no key twice
GInputs ==
   UNION {{d \in [1..n -> {Prop(k, v) : k \in GKeys, v \in GValues}] :
              \A i, j \in 1..n : i # j => d[i].k # d[j].k} : n \in 0..MaxFields}

InitGroupKeys ==
   /\ variant = "multipart"
   /\ connect = "pending"
   /\ store = <<>>
   /\ corrupt = FALSE
   /\ req = [r \in Reqs |-> IdleReq]
   /\ nextOid = 1
   /\ clock = 1
   /\ data \in GInputs
   /\ groups = EmptyGroups
   /\ gpc = "ready"

\* const groups = groupKeys(data), as buildHtmlEmail and buildTextEmail call it
ApplyGroupKeys ==
   /\ gpc = "ready"
   /\ groups' = groupKeys(data)
   /\ gpc' = "done"
   /\ UNCHANGED <<serverVars, data>>

NextGroupKeys == ApplyGroupKeys

SpecGroupKeys == InitGroupKeys /\ [][NextGroupKeys]_vars

(***************************************************************************)
(* Properties.                                                             *)
(***************************************************************************)
Submits == {r \in Reqs : req[r].kind = "submit"}

Lists == {r \in Reqs : req[r].kind = "list"}

Done(r) == req[r].pc = "done"

InStore(rec) == \E i \in 1..Len(store) : store[i] = rec

\* C1: once the store write of a submission has succeeded, a failing
\* notification (the admin or the client sendMail rejecting) leaves the
\* response the success acknowledgment with the stored id, never a 500, and
\* the stored record stays in the store.
C1_NotifyFailureKeepsSuccess ==
   \A r \in Submits :
      (req[r].put = "ok" /\ req[r].notify = "failed" /\ Done(r)) =>
         /\ req[r].status = 200
         /\ req[r].msg = "Booking saved"
         /\ req[r].id = Get(req[r].record, "_id")
         /\ InStore(req[r].record)

C3_ListingNeedsBearer ==
   \A r \in Lists :
      req[r].auth # "Bearer s3cret" =>
         /\ ~req[r].queried
         /\ Done(r) => req[r].status = 401

\* C4: in every submit handler that accepts an upload, a submission whose
\* file exceeds 10 MB or is not declared application/pdf is answered 400,
\* and neither a store write nor an e-mail is ever attempted for it.
C4_BadFileRejected ==
   \A r \in Submits :
      (/\ req[r].file.present
       /\ \/ req[r].file.size > 10 * 1024 * 1024
          \/ req[r].file.mimetype # "application/pdf") =>
         /\ req[r].pc \in {"done"}
         /\ req[r].status = 400
         /\ req[r].put = "none"
         /\ req[r].sent = <<>>

\* C5: round trip, for every payload and every backend: the record of an
\* acknowledged submission is in the store (so a listing that follows
\* returns it), and its identifier and its timestamp are the ones the
\* server and the store assigned, never values of the caller's payload.
C5_RoundTripServerAssigned ==
   \A r \in Submits :
      (Done(r) /\ req[r].status = 200) =>
         /\ InStore(req[r].record)
         /\ Get(req[r].record, "_id").t = "oid"
         /\ Get(req[r].record, "date").t = "date"

\* C6: the store only grows: no step removes or changes a record that is
\* in the store, also when a flat-file submission fails to read or parse
\* the existing file.
C6_StoreOnlyGrows ==
   [][/\ Len(store') >= Len(store)
      /\ \A i \in 1..Len(store) : store'[i] = store[i]]_vars

\* Lost updates (C7).  A flat-file submission reads, pushes and writes in
\* one synchronous run, so no other request is handled between its read and
\* its write: an acknowledged record is missing from the file only after a
\* later submission failed to read or parse it, or failed while writing.
FlatLossNeedsFailure ==
   ~UsesMongo(variant) =>
      \A r1 \in Submits :
         (/\ req[r1].status = 200
          /\ \A r2 \in Submits : r2 > r1 => (req[r2].read = "ok" /\ req[r2].status = 200))
            => InStore(req[r1].record)

\* With the MongoDB collection every acknowledged record is in the store,
\* however the awaits of concurrent requests interleave.
MongoNoLostUpdate ==
   UsesMongo(variant) =>
      \A r \in Submits : (Done(r) /\ req[r].status = 200) => InStore(req[r].record)

\* contact_email is a string with a character that is not white space
NonBlankEmail(d) ==
   LET v == Get(d, "contact_email") IN
   /\ v.t = "str"
   /\ \E i \in 1..Len(Chars[v.s]) : Chars[v.s][i] \notin White

C9_FileMetaIffUploaded ==
   UsesMulter(variant) =>
      \A r \in Submits :
         req[r].put = "ok" =>
            LET key == IF variant = "pdfUpload" THEN "uploaded_file" ELSE "file"
                rec == req[r].record
            IN  /\ HasKey(rec, key) <=> req[r].file.present
                /\ req[r].file.present => Get(rec, key) = FileMeta(req[r].file)

\* how often key k occurs in the sequence s
Count(s, k) == Cardinality({i \in 1..Len(s) : s[i] = k})

\* the spelling of k begins with the spelling of p
HasPrefix(k, p) ==
   /\ Len(Chars[p]) <= Len(Chars[k])
   /\ \A i \in 1..Len(Chars[p]) : Chars[k][i] = Chars[p][i]

\* the group the prefix rules give a key
RuleGroup(k) ==
   CASE HasPrefix(k, "contact_") \/ k = "youarea" -> "Contact"
     [] HasPrefix(k, "general_equipment") -> "Equipment"
     [] HasPrefix(k, "general_") /\ ~HasPrefix(k, "general_equipment") -> "Project"
     [] HasPrefix(k, "billing_") -> "Billing"
     [] k \in {"client_date", "date"} -> "Meta"
     [] OTHER -> "Project"

\* a value that is null or whose text has nothing but white space
BlankValue(v) ==
   v.t = "null" \/ \A i \in 1..Len(String(v)) : String(v)[i] \in White

\* C10: groupKeys classifies totally and disjointly: a key that is not on
\* the denylist and has a non-blank value occurs exactly once, in the group
\* the prefix rules give it, and in no other group; a denylisted key and a
\* key with a null or blank value occur in no group; the reordering inside
\* a group drops no key, repeats none and adds none.
C10_GroupKeysTotalDisjoint ==
   gpc = "done" =>
      /\ \A i \in 1..Len(data) :
            LET k == data[i].k
                v == data[i].v
            IN  IF k \in {"_id", "file", "file_name", "file_content"} \/ BlankValue(v)
                   THEN \A g \in GroupNames : Count(groups[g], k) = 0
                   ELSE \A g \in GroupNames :
                           Count(groups[g], k) = IF g = RuleGroup(k) THEN 1 ELSE 0
      /\ \A g \in GroupNames : \A j \in 1..Len(groups[g]) :
            \E i \in 1..Len(data) : data[i].k = groups[g][j]

\* C10 witness: groupKeys ran on a submission that names contact_email
\* before contact_name, both non-blank, and put the two into Contact in the
\* preferred order.
C10_Witness ==
   /\ gpc = "done"
   /\ Len(data) >= 2
   /\ data[1].k = "contact_email"
   /\ data[2].k = "contact_name"
   /\ groups.Contact = <<"contact_name", "contact_email">>

\* C11: while the store connection has not completed, or after it failed,
\* a well-formed submit or an authorized list request is answered with a
\* 503 'not ready' at once, and no store operation and no e-mail happens
\* for it.
C11_NotReadyFailsFast ==
   (UsesMongo(variant) /\ connect # "resolved") =>
      \A r \in Reqs :
         (\/ /\ req[r].kind = "submit"
             /\ \/ ~req[r].file.present
                \/ /\ req[r].file.mimetype = "application/pdf"
                   /\ req[r].file.size <= 10 * 1024 * 1024
          \/ /\ req[r].kind = "list"
             /\ req[r].auth = "Bearer s3cret") =>
            /\ Done(r)
            /\ req[r].status = 503
            /\ ~InStore(req[r].record)
            /\ req[r].sent = <<>>
            /\ ~req[r].queried

\* the groups whose preferred order names key k
PreferredGroups(k) ==
   {g \in {"Contact", "Project", "Equipment", "Billing"} :
      \E j \in 1..Len(CASE g = "Contact" -> ContactOrder
                        [] g = "Project" -> ProjectOrder
                        [] g = "Equipment" -> EquipmentOrder
                        [] OTHER -> BillingOrder) :
         (CASE g = "Contact" -> ContactOrder
            [] g = "Project" -> ProjectOrder
            [] g = "Equipment" -> EquipmentOrder
            [] OTHER -> BillingOrder)[j] = k}

\* C12: the preferred-order lists agree with the classification: a key that
\* a group's preferred order names, present with a non-blank value, is put
\* into that group (general_eqlisttext into Equipment, youarea into
\* Contact).
C12_PreferredKeysInTheirGroup ==
   gpc = "done" =>
      \A i \in 1..Len(data) :
         ~BlankValue(data[i].v) =>
            \A g \in PreferredGroups(data[i].k) : Count(groups[g], data[i].k) = 1

=============================================================================
